---- MODULE Spec2Model ----
(***************************************************************************)
(* Model of main() (src/main.py): EmailProcessor.process() on the path     *)
(* 'strangeDate.msg' (src/email_processor.py), that is _process_msg with   *)
(* the three _extract_* handlers, the FILETIME decoder _parse_filetime and *)
(* the attachment writer _save_attachment, followed by                     *)
(* PDFGenerator.generate() (src/pdf_generator.py).  main() hands process() *)
(* a path that ends in .msg, so the .eml branch of process()               *)
(* (_process_eml) is not taken and is not part of the model.               *)
(*                                                                         *)
(* The traversal is a sequential program.  Its steps are the iterations of *)
(* its loops: one step per entry the root yields, one per child a          *)
(* recipient or attachment group yields, one at the end of a group.  The   *)
(* compound file is the environment: what the root and the groups yield,   *)
(* whether a stream can be read, and whether iterating a directory fails,  *)
(* is chosen step by step.  The output directory and the standard output   *)
(* are the environment too: whether files can be created in the directory, *)
(* and whether the standard output can encode characters beyond ASCII, is  *)
(* fixed before the call.                                                  *)
(*                                                                         *)
(* Python values:                                                          *)
(*   bytes      sequence of integers 0..255                                *)
(*   str        sequence of code points                                    *)
(*   None       NoneVal                                                    *)
(*   a str or bytes held where None may be held too: Some(v)               *)
(*   datetime   [kind |-> "datetime", days, seconds, microseconds], the    *)
(*              timedelta from datetime(1601, 1, 1)                        *)
(*   "Unknown"  Unknown                                                    *)
(***************************************************************************)
EXTENDS Integers, Sequences, FiniteSets, TLC

(***************************************************************************)
(* Bounds of the model.                                                    *)
(***************************************************************************)
\* longest buffer handed to _parse_filetime
MaxBufLen == 9
\* longest declared filename handed to _save_attachment
MaxNameLen == 3
\* number of entries the container root yields
MaxEntries == 2
\* number of children of a recipient or attachment group
MaxChildren == 3

(***************************************************************************)
(* Python values.                                                          *)
(***************************************************************************)
NoneVal == [kind |-> "None"]
Some(v) == [kind |-> "value", val |-> v]
Unknown == [kind |-> "Unknown"]
Datetime(d, s, us) ==
    [kind |-> "datetime", days |-> d, seconds |-> s, microseconds |-> us]

\* Python truthiness of the values above: None, '' and b'' are falsy,
\* a datetime and the non-empty string "Unknown" are truthy.
Truthy(v) ==
    CASE v.kind = "None" -> FALSE
      [] v.kind = "value" -> v.val # <<>>
      [] OTHER -> TRUE

SeqsUpTo(S, n) == UNION {[1..k -> S] : k \in 0..n}

(***************************************************************************)
(* Arbitrary-precision naturals.  Python's int is unbounded; the values of *)
(* int.from_bytes on a buffer of 8 or more bytes do not fit the checker's  *)
(* integers.  A natural is held as its digits in base 256, or as its bits, *)
(* most significant first.                                                 *)
(***************************************************************************)
Pow2(k) == <<1, 2, 4, 8, 16, 32, 64, 128>>[k + 1]

\* the bits of a number given by its digits
BitsOf(digits) ==
    [k \in 1..(8 * Len(digits)) |->
        (digits[((k - 1) \div 8) + 1] \div Pow2(7 - ((k - 1) % 8))) % 2]

\* the digits of a number given by its bits
DigitsOf(bits) ==
    LET pad == (8 - (Len(bits) % 8)) % 8
        b == [i \in 1..pad |-> 0] \o bits
    IN [j \in 1..(Len(b) \div 8) |->
           128 * b[8 * j - 7] + 64 * b[8 * j - 6] + 32 * b[8 * j - 5] + 16 * b[8 * j - 4]
           + 8 * b[8 * j - 3] + 4 * b[8 * j - 2] + 2 * b[8 * j - 1] + b[8 * j]]

\* without the leading zeros (of bits or of digits)
Strip(s) ==
    LET nonzero == {i \in 1..Len(s) : s[i] # 0}
    IN IF nonzero = {} THEN <<>>
       ELSE SubSeq(s, CHOOSE i \in nonzero : \A j \in nonzero : i <= j, Len(s))

RECURSIVE DivModAcc(_, _, _, _, _)
DivModAcc(digits, d, i, q, r) ==
    IF i > Len(digits) THEN [q |-> q, r |-> r]
    ELSE LET t == 256 * r + digits[i]
         IN DivModAcc(digits, d, i + 1, Append(q, t \div d), t % d)

\* quotient (as digits) and remainder (an integer below d) of digits / d,
\* for d up to 2^23
DivMod(digits, d) == DivModAcc(digits, d, 1, <<>>, 0)

\* bits + 1
Inc(bits) ==
    LET zeros == {i \in 1..Len(bits) : bits[i] = 0}
    IN IF zeros = {} THEN <<1>> \o [i \in 1..Len(bits) |-> 0]
       ELSE LET last == CHOOSE i \in zeros : \A j \in zeros : j <= i
            IN [i \in 1..Len(bits) |-> IF i < last THEN bits[i] ELSE IF i = last THEN 1 ELSE 0]

\* the value of at most 3 digits
RECURSIVE ToInt(_)
ToInt(digits) ==
    IF digits = <<>> THEN 0
    ELSE 256 * ToInt(SubSeq(digits, 1, Len(digits) - 1)) + digits[Len(digits)]

IsOdd(bits) == bits # <<>> /\ bits[Len(bits)] = 1

\* int.from_bytes(data, 'little'): byte i weighs 256^(i-1)
IntFromBytesLittle(data) == [k \in 1..Len(data) |-> data[Len(data) + 1 - k]]

(***************************************************************************)
(* _parse_filetime                                                         *)
(***************************************************************************)
\* width of the significand of a Python float (IEEE-754 binary64)
FloatMantissa == 53
\* (datetime.max - datetime(1601, 1, 1)).days
MaxDays == 3067670
MicrosPerSecond == 1000000
SecondsPerDay == 86400

\* filetime / 10: int true division, correctly rounded to a float, then
\* timedelta(microseconds=<float>), which rounds the float half-to-even to a
\* whole number of microseconds.  The result is that number, as bits.
MicrosecondsOf(filetime) ==
    LET dm == DivMod(filetime, 10)
        Q == Strip(BitsOf(dm.q))
        R == dm.r
        L == Len(Q)
        \* the fraction R/10 after rounding Q + R/10 to the float grid:
        \* -1 below one half, 0 exactly one half, 1 above one half
        frac == IF L >= FloatMantissa THEN (IF R < 5 THEN -1 ELSE IF R = 5 THEN 0 ELSE 1)
                ELSE IF L = FloatMantissa - 1
                     THEN (IF R <= 2 THEN -1 ELSE IF R <= 7 THEN 0 ELSE 1)
                ELSE IF L = FloatMantissa - 2
                     THEN (IF R <= 3 THEN -1 ELSE IF R <= 6 THEN 0 ELSE 1)
                ELSE (IF R < 5 THEN -1 ELSE IF R = 5 THEN 0 ELSE 1)
        halfEven(n, f) == IF f = 1 \/ (f = 0 /\ IsOdd(n)) THEN Inc(n) ELSE n
    IN IF L <= FloatMantissa
       THEN halfEven(Q, frac)
       ELSE \* the quotient has more bits than a float holds
            LET M == SubSeq(Q, 1, FloatMantissa)
                roundBit == Q[FloatMantissa + 1]
                sticky == R # 0 \/ \E i \in (FloatMantissa + 2)..L : Q[i] = 1
                up == roundBit = 1 /\ (sticky \/ IsOdd(M))
            IN (IF up THEN Inc(M) ELSE M) \o [i \in 1..(L - FloatMantissa) |-> 0]

_parse_filetime(data) ==
    LET filetime == IntFromBytesLittle(data)
        us == DigitsOf(MicrosecondsOf(filetime))
        s == DivMod(us, MicrosPerSecond)
        d == DivMod(s.q, SecondsPerDay)
        days == Strip(d.q)
    IN \* OverflowError from the float conversion, from timedelta or from
       \* epoch + timedelta is caught: print and return "Unknown"
       IF Len(days) > 3 THEN Unknown
       ELSE IF ToInt(days) > MaxDays THEN Unknown
       ELSE Datetime(ToInt(days), d.r, s.r)

(***************************************************************************)
(* bytes.decode('utf-16-le', errors='ignore').rstrip('\x00')               *)
(***************************************************************************)
IsHighSurrogate(u) == u >= 55296 /\ u <= 56319
IsLowSurrogate(u) == u >= 56320 /\ u <= 57343

\* Code units are read two bytes at a time, low byte first.  A surrogate
\* pair gives one code point; a lone surrogate and a trailing odd byte are
\* decoding errors, which errors='ignore' drops.
RECURSIVE DecodeUtf16Le(_)
DecodeUtf16Le(data) ==
    IF Len(data) < 2 THEN <<>>
    ELSE LET u == data[1] + 256 * data[2]
             rest == SubSeq(data, 3, Len(data))
         IN IF IsHighSurrogate(u)
            THEN IF Len(rest) >= 2 /\ IsLowSurrogate(rest[1] + 256 * rest[2])
                 THEN <<65536 + (u - 55296) * 1024 + (rest[1] + 256 * rest[2] - 56320)>>
                      \o DecodeUtf16Le(SubSeq(rest, 3, Len(rest)))
                 ELSE DecodeUtf16Le(rest)
            ELSE IF IsLowSurrogate(u) THEN DecodeUtf16Le(rest)
            ELSE <<u>> \o DecodeUtf16Le(rest)

RECURSIVE RStripNul(_)
RStripNul(s) ==
    IF s = <<>> THEN <<>>
    ELSE IF s[Len(s)] = 0 THEN RStripNul(SubSeq(s, 1, Len(s) - 1))
    ELSE s

\* the lambda of the four text mappings, and the decoding of the recipient,
\* filename and MIME type streams
DecodeText(data) == RStripNul(DecodeUtf16Le(data))

(***************************************************************************)
(* Names of streams and directories, as strings of code points.            *)
(***************************************************************************)
\* __substg1.0_0C1A001F
NAME_FROM ==
    <<95, 95, 115, 117, 98, 115, 116, 103, 49, 46, 48, 95, 48, 67, 49, 65, 48, 48, 49, 70>>
\* __substg1.0_0037001F
NAME_SUBJECT ==
    <<95, 95, 115, 117, 98, 115, 116, 103, 49, 46, 48, 95, 48, 48, 51, 55, 48, 48, 49, 70>>
\* __substg1.0_1000001F
NAME_BODY ==
    <<95, 95, 115, 117, 98, 115, 116, 103, 49, 46, 48, 95, 49, 48, 48, 48, 48, 48, 49, 70>>
\* __substg1.0_0E03001F
NAME_CC ==
    <<95, 95, 115, 117, 98, 115, 116, 103, 49, 46, 48, 95, 48, 69, 48, 51, 48, 48, 49, 70>>
\* __substg1.0_00390040
NAME_SENT_A ==
    <<95, 95, 115, 117, 98, 115, 116, 103, 49, 46, 48, 95, 48, 48, 51, 57, 48, 48, 52, 48>>
\* __substg1.0_0E060040
NAME_SENT_B ==
    <<95, 95, 115, 117, 98, 115, 116, 103, 49, 46, 48, 95, 48, 69, 48, 54, 48, 48, 52, 48>>
\* __substg1.0_3003001F
NAME_RECIP_ADDR ==
    <<95, 95, 115, 117, 98, 115, 116, 103, 49, 46, 48, 95, 51, 48, 48, 51, 48, 48, 49, 70>>
\* __substg1.0_37010102
NAME_ATT_DATA ==
    <<95, 95, 115, 117, 98, 115, 116, 103, 49, 46, 48, 95, 51, 55, 48, 49, 48, 49, 48, 50>>
\* __substg1.0_370E001F
NAME_ATT_FILENAME_A ==
    <<95, 95, 115, 117, 98, 115, 116, 103, 49, 46, 48, 95, 51, 55, 48, 69, 48, 48, 49, 70>>
\* __substg1.0_3707001F
NAME_ATT_FILENAME_B ==
    <<95, 95, 115, 117, 98, 115, 116, 103, 49, 46, 48, 95, 51, 55, 48, 55, 48, 48, 49, 70>>
\* __substg1.0_3704001F
NAME_ATT_MIME ==
    <<95, 95, 115, 117, 98, 115, 116, 103, 49, 46, 48, 95, 51, 55, 48, 52, 48, 48, 49, 70>>
\* __recip_version1.0_
RECIP_PREFIX ==
    <<95, 95, 114, 101, 99, 105, 112, 95, 118, 101, 114, 115, 105, 111, 110, 49, 46, 48, 95>>
\* __attach_version1.0_
ATTACH_PREFIX ==
    <<95, 95, 97, 116, 116, 97, 99, 104, 95, 118, 101, 114, 115, 105, 111, 110, 49, 46, 48, 95>>
\* attachment_
ATTACHMENT_ ==
    <<97, 116, 116, 97, 99, 104, 109, 101, 110, 116, 95>>
\* <>:"/\|?*
FORBIDDEN ==
    <<60, 62, 58, 34, 47, 92, 124, 63, 42>>
\* application/pdf
MIME_PDF ==
    <<97, 112, 112, 108, 105, 99, 97, 116, 105, 111, 110, 47, 112, 100, 102>>
\* text/plain
MIME_TXT ==
    <<116, 101, 120, 116, 47, 112, 108, 97, 105, 110>>
\* image/jpeg
MIME_JPEG ==
    <<105, 109, 97, 103, 101, 47, 106, 112, 101, 103>>
\* image/png
MIME_PNG ==
    <<105, 109, 97, 103, 101, 47, 112, 110, 103>>
\* application/msword
MIME_DOC ==
    <<97, 112, 112, 108, 105, 99, 97, 116, 105, 111, 110, 47, 109, 115, 119, 111, 114, 100>>
\* .pdf
EXT_PDF ==
    <<46, 112, 100, 102>>
\* .txt
EXT_TXT ==
    <<46, 116, 120, 116>>
\* .jpg
EXT_JPG ==
    <<46, 106, 112, 103>>
\* .png
EXT_PNG ==
    <<46, 112, 110, 103>>
\* .doc
EXT_DOC ==
    <<46, 100, 111, 99>>
\* .bin
EXT_BIN ==
    <<46, 98, 105, 110>>
\* the character '.'
PERIOD == 46
\* main.py: msg_file and output_dir
\* 'strangeDate.msg'
FILE_PATH ==
    <<115, 116, 114, 97, 110, 103, 101, 68, 97, 116, 101, 46, 109, 115, 103>>
\* 'attachments'
OUTPUT_DIR ==
    <<97, 116, 116, 97, 99, 104, 109, 101, 110, 116, 115>>

(***************************************************************************)
(* _save_attachment                                                        *)
(***************************************************************************)
\* str.replace(char, '.') for a single character
\* mutant: only the first occurrence is replaced
RECURSIVE Replace_first(_, _)
Replace_first(s, char) ==
    IF s = <<>> THEN <<>>
    ELSE IF Head(s) = char THEN <<PERIOD>> \o Tail(s)
    ELSE <<Head(s)>> \o Replace_first(Tail(s), char)

Replace(s, char) == [i \in 1..Len(s) |-> IF s[i] = char THEN PERIOD ELSE s[i]]

\* for char in '<>:"/\\|?*': base_filename = base_filename.replace(char, '.')
RECURSIVE Sanitize(_, _)
Sanitize(s, i) ==
    IF i > Len(FORBIDDEN) THEN s
    ELSE Sanitize(Replace(s, FORBIDDEN[i]), i + 1)

\* mutant: entry_name[-7:]
Last8_off_by_one(s) == IF Len(s) <= 7 THEN s ELSE SubSeq(s, Len(s) - 6, Len(s))

\* entry_name[-8:]
Last8(s) == IF Len(s) <= 8 THEN s ELSE SubSeq(s, Len(s) - 7, Len(s))

\* mime_to_ext.get(mime_type, '.bin')
MimeToExt(mime_type) ==
    IF mime_type = Some(MIME_PDF) THEN EXT_PDF
    ELSE IF mime_type = Some(MIME_TXT) THEN EXT_TXT
    ELSE IF mime_type = Some(MIME_JPEG) THEN EXT_JPG
    ELSE IF mime_type = Some(MIME_PNG) THEN EXT_PNG
    ELSE IF mime_type = Some(MIME_DOC) THEN EXT_DOC
    ELSE EXT_BIN

\* lines 171-175: the name under which the attachment is saved
Filename(att, name) ==
    LET base_filename ==
            Sanitize(IF Truthy(att.filename) THEN att.filename.val
                     ELSE ATTACHMENT_ \o Last8(name), 1)
        ext == IF \A i \in 1..Len(base_filename) : base_filename[i] # PERIOD
               THEN MimeToExt(att.mime_type) ELSE <<>>
    IN base_filename \o ext

\* os.path.join(self.output_dir, filename), filename holding no separator
Filepath(filename) == OUTPUT_DIR \o <<47>> \o filename

\* bytes of a character, and of a string, in UTF-8, the encoding of file
\* names (strings hold no surrogates: the decoder drops them)
Utf8Len(c) == IF c < 128 THEN 1 ELSE IF c < 2048 THEN 2 ELSE IF c < 65536 THEN 3 ELSE 4
Utf8Length(s) ==
    LET Count(n) == Cardinality({i \in 1..Len(s) : Utf8Len(s[i]) >= n})
    IN Count(1) + Count(2) + Count(3) + Count(4)
\* the longest file name of the file system, in bytes
NAME_MAX == 255

\* open(filepath, "wb") raises in a directory with files fs:
\* IsADirectoryError when the name is '', '.' or '..', ValueError when it
\* holds a NUL, OSError when it is too long, PermissionError when there is
\* no file of that name and files cannot be created in output_dir (w is
\* false).  A file of fs is one the user may write: it is opened and
\* truncated whether or not files can be created
OpenRaises(filename, w, fs) ==
    \/ filename \in {<<>>, <<PERIOD>>, <<PERIOD, PERIOD>>}
    \/ \E i \in 1..Len(filename) : filename[i] = 0
    \/ Utf8Length(filename) > NAME_MAX
    \/ ~w /\ \A f \in fs : f.name # filename

\* open(filepath, "wb") and f.write(data): the file of that name is
\* replaced, or nothing changes when open raises
WriteFile(fs, filename, content, w) ==
    IF OpenRaises(filename, w, fs) THEN fs
    ELSE {f \in fs : f.name # filename} \cup {[name |-> filename, data |-> content]}

\* print(text) returns: sys.stdout can encode the text.  ascii tells that
\* the encoding of sys.stdout is ASCII (or another one that covers the ASCII
\* characters only); otherwise it is UTF-8
StdoutAccepts(text, ascii) == ~ascii \/ \A i \in 1..Len(text) : text[i] < 128

\* _save_attachment in a directory with files fs: whether it raises (at
\* open, with no file written, or at print, with the file written), the
\* filename it returns, and the files afterwards
_save_attachment(att, name, fs, w, ascii) ==
    LET filename == Filename(att, name)
    IN IF OpenRaises(filename, w, fs)
       THEN [raises |-> TRUE, filename |-> NoneVal, files |-> fs]
       ELSE IF ~StdoutAccepts(Filepath(filename), ascii)
       THEN [raises |-> TRUE, filename |-> NoneVal,
             files |-> WriteFile(fs, filename, att.data.val, w)]
       ELSE [raises |-> FALSE, filename |-> Some(filename),
             files |-> WriteFile(fs, filename, att.data.val, w)]

(***************************************************************************)
(* Entries of the compound file.  `open` is the outcome of                 *)
(* "with doc.open(entry) as stream: ... stream.read()": the bytes are read *)
(* ("ok"), the stream is None ("none"), or the open or the read raises     *)
(* ("raise").  Opening a directory raises.                                 *)
(***************************************************************************)
Stream(name, open, bytes) ==
    [name |-> name, isdir |-> FALSE, open |-> open, data |-> bytes]
Dir(name) ==
    [name |-> name, isdir |-> TRUE, open |-> "raise", data |-> <<>>]

\* str.startswith
StartsWith(s, prefix) ==
    Len(s) >= Len(prefix) /\ SubSeq(s, 1, Len(prefix)) = prefix

IsRecipientGroup(e) == e.isdir /\ StartsWith(e.name, RECIP_PREFIX)
IsAttachmentGroup(e) == e.isdir /\ StartsWith(e.name, ATTACH_PREFIX)

(***************************************************************************)
(* _extract_metadata                                                       *)
(***************************************************************************)
\* mappings: stream name -> field of email_data
Mappings ==
    [n \in {NAME_FROM, NAME_SUBJECT, NAME_BODY, NAME_CC, NAME_SENT_A, NAME_SENT_B} |->
        IF n = NAME_FROM THEN "From"
        ELSE IF n = NAME_SUBJECT THEN "Subject"
        ELSE IF n = NAME_BODY THEN "Body"
        ELSE IF n = NAME_CC THEN "CC"
        ELSE "Sent On"]

\* mappings[name][1](data)
MappingFunc(key, bytes) ==
    IF key = "Sent On" THEN _parse_filetime(bytes) ELSE Some(DecodeText(bytes))

\* mutant: the "Sent On" guard is missing, so the last stream wins
_extract_metadata_last_wins(ed, e) ==
    IF e.isdir THEN ed
    ELSE IF e.open # "ok" THEN ed
    ELSE IF e.name \in DOMAIN Mappings
         THEN [ed EXCEPT ![Mappings[e.name]] = MappingFunc(Mappings[e.name], e.data)]
         ELSE ed

_extract_metadata(ed, e) ==
    IF e.isdir THEN ed
    ELSE IF e.open # "ok" THEN ed
    ELSE IF /\ e.name \in DOMAIN Mappings
            /\ (Mappings[e.name] # "Sent On" \/ ~Truthy(ed["Sent On"]))
         THEN [ed EXCEPT ![Mappings[e.name]] = MappingFunc(Mappings[e.name], e.data)]
         ELSE ed

(***************************************************************************)
(* _extract_recipients: the body of its loop over the group's children     *)
(***************************************************************************)
\* mutant: the address is put in front of the list
ScanRecipientChild_prepends(to, c) ==
    IF c.name = NAME_RECIP_ADDR /\ c.open = "ok"
    THEN <<DecodeText(c.data)>> \o to
    ELSE to

ScanRecipientChild(to, c) ==
    IF c.name = NAME_RECIP_ADDR /\ c.open = "ok"
    THEN Append(to, DecodeText(c.data))
    ELSE to

(***************************************************************************)
(* _extract_attachment: the body of its loop over the group's children     *)
(***************************************************************************)
NewAttachment == [data |-> NoneVal, filename |-> NoneVal, mime_type |-> NoneVal]

ScanAttachmentChild(att, c) ==
    IF c.isdir THEN att
    ELSE IF c.open # "ok" THEN att
    ELSE IF c.name = NAME_ATT_DATA THEN [att EXCEPT !.data = Some(c.data)]
    ELSE IF c.name \in {NAME_ATT_FILENAME_A, NAME_ATT_FILENAME_B}
         THEN [att EXCEPT !.filename = Some(DecodeText(c.data))]
    ELSE IF c.name = NAME_ATT_MIME
         THEN [att EXCEPT !.mime_type = Some(DecodeText(c.data))]
    ELSE att

\* mutant: if attachment["data"] is not None:
HasData_not_none(att) == att.data # NoneVal

\* if attachment["data"]:
HasData(att) == Truthy(att.data)

(***************************************************************************)
(* PDFGenerator (src/pdf_generator.py).  The document is modelled by the   *)
(* texts that generate() hands to the canvas, in the order it draws them:  *)
(* the header lines, the paragraphs of the body, the list of attachments   *)
(* and the note of an empty document.  Wrapping, page breaks, fonts and    *)
(* the bytes of the PDF file are not modelled.                             *)
(***************************************************************************)
\* 'email_content.pdf'
PDF_NAME ==
    <<101, 109, 97, 105, 108, 95, 99, 111, 110, 116, 101, 110, 116, 46, 112, 100, 102>>
\* 'Not Found'
NOT_FOUND ==
    <<78, 111, 116, 32, 70, 111, 117, 110, 100>>
\* 'Unknown'
UNKNOWN_STR ==
    <<85, 110, 107, 110, 111, 119, 110>>
\* ', '
COMMA_SPACE ==
    <<44, 32>>
\* '...'
ELLIPSIS ==
    <<46, 46, 46>>
\* 'Attachments:'
ATTACHMENTS_TITLE ==
    <<65, 116, 116, 97, 99, 104, 109, 101, 110, 116, 115, 58>>
\* '- '
DASH_SPACE ==
    <<45, 32>>
\* '-----Original Message-----'
ORIGINAL_MESSAGE ==
    <<45, 45, 45, 45, 45, 79, 114, 105, 103, 105, 110, 97, 108, 32, 77, 101, 115, 115,
      97, 103, 101, 45, 45, 45, 45, 45>>
\* 'From:'
FROM_COLON ==
    <<70, 114, 111, 109, 58>>
\* 'No email content or attachments found.'
NO_CONTENT ==
    <<78, 111, 32, 101, 109, 97, 105, 108, 32, 99, 111, 110, 116, 101, 110, 116, 32, 111,
      114, 32, 97, 116, 116, 97, 99, 104, 109, 101, 110, 116, 115, 32, 102, 111, 117, 110,
      100, 46>>

\* the decimal digits of n, zero-padded to width w: '%0wd' % n
Pad(n, w) ==
    LET Pow10(k) == <<1, 10, 100, 1000, 10000, 100000>>[k + 1]
    IN [i \in 1..w |-> 48 + ((n \div Pow10(w - i)) % 10)]

\* the days before the first day of each month
DaysBeforeMonth(leap) ==
    LET l == IF leap THEN 1 ELSE 0
    IN <<0, 31, 59 + l, 90 + l, 120 + l, 151 + l, 181 + l, 212 + l, 243 + l, 273 + l,
         304 + l, 334 + l>>

\* the date that lies `days` days after 1601-01-01, the first day of a
\* cycle of 400 years of the Gregorian calendar
DateOf(days) ==
    LET n400 == days \div 146097
        r400 == days % 146097
        n100 == r400 \div 36524
        r100 == r400 % 36524
        n4 == r100 \div 1461
        r4 == r100 % 1461
        n1 == r4 \div 365
        r1 == r4 % 365
        year == 1601 + 400 * n400 + 100 * n100 + 4 * n4 + n1
    IN IF n1 = 4 \/ n100 = 4
       THEN [year |-> year - 1, month |-> 12, day |-> 31]
       ELSE LET leap == n1 = 3 /\ (n4 # 24 \/ n100 = 3)
                before == DaysBeforeMonth(leap)
                month == CHOOSE m \in 1..12 :
                             before[m] <= r1 /\ (m = 12 \/ before[m + 1] > r1)
            IN [year |-> year, month |-> month, day |-> r1 - before[month] + 1]

\* str(datetime): 'YYYY-MM-DD HH:MM:SS', followed by '.ffffff' when the
\* microseconds are not 0
DatetimeStr(dt) ==
    LET date == DateOf(dt.days)
    IN Pad(date.year, 4) \o <<45>> \o Pad(date.month, 2) \o <<45>> \o Pad(date.day, 2)
       \o <<32>> \o Pad(dt.seconds \div 3600, 2) \o <<58>>
       \o Pad((dt.seconds % 3600) \div 60, 2) \o <<58>> \o Pad(dt.seconds % 60, 2)
       \o (IF dt.microseconds = 0 THEN <<>> ELSE <<46>> \o Pad(dt.microseconds, 6))

\* str(value) of a field that is not None
Str(value) ==
    CASE value.kind = "value" -> value.val
      [] value.kind = "Unknown" -> UNKNOWN_STR
      [] value.kind = "datetime" -> DatetimeStr(value)

\* ", ".join(value)
RECURSIVE Join(_)
Join(strs) ==
    IF strs = <<>> THEN <<>>
    ELSE IF Len(strs) = 1 THEN strs[1]
    ELSE strs[1] \o COMMA_SPACE \o Join(Tail(strs))

\* truthiness of a field of email_data: "To" is a list
FieldTruthy(key, value) == IF key = "To" THEN value # <<>> ELSE Truthy(value)

HeaderKeys == <<"From", "To", "Sent On", "CC", "Subject">>

\* _draw_headers: a line for each field that has a value, and for "Sent On"
\* in any case; a subject of more than 50 characters is cut to 47 and '...'
_draw_headers(ed) ==
    LET value_str(key) ==
            LET s == IF key = "To" /\ FieldTruthy(key, ed[key]) THEN Join(ed[key])
                     ELSE IF FieldTruthy(key, ed[key]) THEN Str(ed[key])
                     ELSE NOT_FOUND
            IN IF key = "Subject" /\ Len(s) > 50 THEN SubSeq(s, 1, 47) \o ELLIPSIS ELSE s
        drawn == SelectSeq(HeaderKeys,
                           LAMBDA key : FieldTruthy(key, ed[key]) \/ key = "Sent On")
    IN [i \in 1..Len(drawn) |-> [key |-> drawn[i], text |-> value_str(drawn[i])]]

\* str.split('\n')
RECURSIVE SplitLines(_)
SplitLines(s) ==
    IF \A i \in 1..Len(s) : s[i] # 10 THEN <<s>>
    ELSE LET k == CHOOSE i \in 1..Len(s) : s[i] = 10 /\ \A j \in 1..(i - 1) : s[j] # 10
         IN <<SubSeq(s, 1, k - 1)>> \o SplitLines(SubSeq(s, k + 1, Len(s)))

\* sub in s
Contains(s, sub) ==
    \E i \in 1..(Len(s) - Len(sub) + 1) : SubSeq(s, i, i + Len(sub) - 1) = sub

\* the characters str.strip() removes
Whitespace ==
    {9, 10, 11, 12, 13, 28, 29, 30, 31, 32, 133, 160, 5760, 8232, 8233, 8239, 8287, 12288}
    \cup 8192..8202
\* not para.strip()
IsBlank(para) == \A i \in 1..Len(para) : para[i] \in Whitespace

\* the chain detection of _draw_body after one more paragraph
InChain(in_chain, para) ==
    IF \/ (para # <<>> /\ para[1] = 62)
       \/ Contains(para, ORIGINAL_MESSAGE)
       \/ Contains(para, FROM_COLON)
    THEN TRUE
    ELSE IF in_chain /\ IsBlank(para) THEN FALSE
    ELSE in_chain

RECURSIVE DrawParagraphs(_, _)
DrawParagraphs(paragraphs, in_chain) ==
    IF paragraphs = <<>> THEN <<>>
    ELSE LET now == InChain(in_chain, Head(paragraphs))
         IN <<[text |-> Head(paragraphs), in_chain |-> now]>>
            \o DrawParagraphs(Tail(paragraphs), now)

\* _draw_body: the paragraphs of the body, each with whether it is drawn as
\* part of a quoted chain; a body of None is the empty string
_draw_body(ed) ==
    LET body == IF ed["Body"] = NoneVal THEN <<>> ELSE ed["Body"].val
    IN DrawParagraphs(SplitLines(body), FALSE)

\* _draw_attachments: a title and a line for each attachment, if there is one
_draw_attachments(atts) ==
    IF atts = <<>> THEN <<>>
    ELSE <<ATTACHMENTS_TITLE>> \o [i \in 1..Len(atts) |-> DASH_SPACE \o atts[i]]

\* generate: what is drawn
generate(ed, atts) ==
    [headers |-> _draw_headers(ed),
     body |-> _draw_body(ed),
     attachments |-> _draw_attachments(atts),
     note |-> IF (\A key \in DOMAIN ed : ~FieldTruthy(key, ed[key])) /\ atts = <<>>
              THEN <<NO_CONTENT>> ELSE <<>>]

\* _save_pdf: open(self.output_path, "wb") and pdf_writer.write(f), where
\* output_path is os.path.join(output_dir, 'email_content.pdf') of main().
\* The file of that name is replaced by one that holds the PDF of the
\* document, or nothing changes when open raises
_save_pdf(fs, document, w) ==
    IF OpenRaises(PDF_NAME, w, fs) THEN fs
    ELSE {f \in fs : f.name # PDF_NAME} \cup {[name |-> PDF_NAME, pdf |-> document]}

(***************************************************************************)
(* Inputs.                                                                 *)
(***************************************************************************)
\* "A" padded with one NUL, and "B", in UTF-16LE
TextA == <<65, 0, 0, 0>>
TextB == <<66, 0>>
\* a body of three paragraphs in UTF-16LE: ">A", "" and "B"
TextBody == <<62, 0, 65, 0, 10, 0, 10, 0, 66, 0>>
\* declared filenames in UTF-16LE: "a", "email_content.pdf" (the name of the
\* PDF that main() generates), ":" (sanitized to ".", the directory itself)
\* and "\u00e9" (not an ASCII character)
FileA == <<97, 0>>
FilePdf ==
    [i \in 1..(2 * Len(PDF_NAME)) |-> IF i % 2 = 1 THEN PDF_NAME[(i + 1) \div 2] ELSE 0]
FileColon == <<58, 0>>
FileAccent == <<233, 0>>
\* FILETIME buffers: 2^56 ticks (a date in 1829) and 2^63 ticks (beyond
\* datetime.max)
SentBuffers == {<<0, 0, 0, 0, 0, 0, 0, 1>>, <<0, 0, 0, 0, 0, 0, 0, 128>>}
Payload == <<37, 80>>

\* __recip_version1.0_#00000000, __recip_version1.0_#00000001 and
\* __attach_version1.0_#00000000
RecipName == RECIP_PREFIX \o <<35, 48, 48, 48, 48, 48, 48, 48, 48>>
RecipName1 == RECIP_PREFIX \o <<35, 48, 48, 48, 48, 48, 48, 48, 49>>
AttachName == ATTACH_PREFIX \o <<35, 48, 48, 48, 48, 48, 48, 48, 48>>
\* __attach_version1.0_#0000000\u00e9, a group name outside ASCII
AttachNameAccent == ATTACH_PREFIX \o <<35, 48, 48, 48, 48, 48, 48, 48, 233>>
\* __properties_version1.0, a name the traversal does not know
NAME_OTHER ==
    <<95, 95, 112, 114, 111, 112, 101, 114, 116, 105, 101, 115, 95, 118, 101, 114,
      115, 105, 111, 110, 49, 46, 48>>
\* "\u00e9", a name outside ASCII (the names of a compound file are UTF-16)
NAME_ACCENT == <<233>>

RootEntries ==
    {Stream(n, "ok", TextA) : n \in {NAME_FROM, NAME_SUBJECT, NAME_OTHER}}
    \cup {Stream(NAME_BODY, "ok", TextBody)}
    \cup {Stream(NAME_FROM, "raise", <<>>)}
    \cup {Stream(NAME_SENT_A, "ok", d) : d \in SentBuffers}
    \cup {Stream(NAME_SENT_B, "ok", <<>>), Stream(NAME_SENT_B, "raise", <<>>),
          Stream(NAME_SENT_B, "none", <<>>)}
    \cup {Stream(NAME_ACCENT, "raise", <<>>), Stream(NAME_ACCENT, "none", <<>>)}
    \cup {Dir(NAME_SENT_A), Dir(RecipName), Dir(RecipName1), Dir(AttachName),
          Dir(AttachNameAccent)}

\* what a recipient group may yield: the address stream of the first group
\* holds "A", the one of the second group holds "B"
RecipChildren(group) ==
    {Stream(NAME_RECIP_ADDR, "ok", IF group.name = RecipName THEN TextA ELSE TextB),
     Stream(NAME_RECIP_ADDR, "raise", <<>>), Stream(NAME_OTHER, "ok", TextA)}

AttachChildren ==
    {Stream(NAME_ATT_DATA, "ok", Payload), Stream(NAME_ATT_DATA, "ok", <<>>),
     Stream(NAME_ATT_DATA, "raise", <<>>),
     Stream(NAME_ACCENT, "raise", <<>>), Stream(NAME_ACCENT, "none", <<>>),
     Stream(NAME_ATT_FILENAME_A, "ok", FileA),
     Stream(NAME_ATT_FILENAME_A, "ok", FilePdf),
     Stream(NAME_ATT_FILENAME_B, "ok", FileColon),
     Stream(NAME_ATT_FILENAME_B, "ok", FileAccent)}

NoEntry == Dir(<<>>)

\* inputs of _parse_filetime
ByteValues == {0, 1, 128}
\* inputs of _save_attachment
\* NUL a . < > : " / \ | ? * and \u00e9
NameChars == {0, 97, 46, 60, 62, 58, 34, 47, 92, 124, 63, 42, 233}
\* 'x/y', a MIME type outside the table
MIME_OTHER == <<120, 47, 121>>
MimeTypes ==
    {NoneVal} \cup {Some(m) : m \in {MIME_PDF, MIME_TXT, MIME_JPEG, MIME_PNG, MIME_DOC, MIME_OTHER}}
\* __attach_version1.0_#00000000, __attach_version1.0_#1, __attach_version1.0_#0000?000
GroupNames ==
    {AttachName, ATTACH_PREFIX \o <<35, 49>>,
     ATTACH_PREFIX \o <<35, 48, 48, 48, 48, 63, 48, 48, 48>>}

(***************************************************************************)
(* State.                                                                  *)
(***************************************************************************)
VARIABLES
    pc,           \* position in the call under study
    email_data,   \* self.email_data
    attachments,  \* self.attachments
    files,        \* the files of output_dir: set of [name, data]
    writable,     \* whether files can be created in output_dir
    stdout_ascii, \* whether sys.stdout encodes ASCII characters only
    entry,        \* the loop variable of _process_msg
    yielded,      \* number of entries doc.root has yielded
    stream_entry, \* the loop variable of the group being scanned
    scanned,      \* number of children the group has yielded
    attachment,   \* the attachment dict of _extract_attachment, and the
                  \* first argument of _save_attachment
    has_payload,  \* history: a payload stream with bytes was read in the group
    failed,       \* what the outer except of _process_msg caught
    error_logged, \* history: an except clause inside the loop has printed its
                  \* line (its print returned)
    data,         \* argument of _parse_filetime
    parsed,       \* its return value
    entry_name,   \* second argument of _save_attachment
    saved         \* its return value

vars == <<pc, email_data, attachments, files, writable, stdout_ascii, entry, yielded,
          stream_entry, scanned, attachment, has_payload, failed, error_logged, data,
          parsed, entry_name, saved>>

envVars == <<writable, stdout_ascii>>
filetimeVars == <<data, parsed>>
saveVars == <<entry_name, saved>>

\* __init__
EmptyRecord ==
    [k \in {"From", "To", "Sent On", "CC", "Subject", "Body"} |->
        IF k = "To" THEN <<>> ELSE NoneVal]

InitObject ==
    /\ email_data = EmptyRecord
    /\ attachments = <<>>
    /\ entry = NoEntry
    /\ yielded = 0
    /\ stream_entry = NoEntry
    /\ scanned = 0
    /\ has_payload = FALSE
    /\ failed = "none"
    /\ error_logged = FALSE

\* os.makedirs(output_dir, exist_ok=True): output_dir is new and empty, or
\* it is there already and holds the files an earlier run has left, a.bin
\* and email_content.pdf
LeftOver ==
    {[name |-> <<97>> \o EXT_BIN, data |-> <<111, 108, 100>>],
     [name |-> PDF_NAME, data |-> <<37>>]}
InitialFiles == {{}, LeftOver}

IdleFiletime == data = <<>> /\ parsed = NoneVal
IdleSave == entry_name = <<>> /\ saved = NoneVal

(***************************************************************************)
(* main(): process() on the path 'strangeDate.msg', which calls            *)
(* _process_msg, and then PDFGenerator.generate().                         *)
(*                                                                         *)
(* Every except clause prints the name of the entry at hand.  When that    *)
(* print raises, the exception leaves the handler: from a handler inside   *)
(* an _extract_* method it reaches the handler of the entry loop, which    *)
(* prints entry.name, and from there the outer handler, which prints       *)
(* self.file_path and ends the traversal.  The text of the exception that  *)
(* is printed along is taken to be printable, except for the OSError of    *)
(* open(), whose text holds the file path; the text of the                 *)
(* UnicodeEncodeError of a print is ASCII.                                 *)
(***************************************************************************)
Init ==
    /\ pc = "start"
    /\ InitObject
    /\ writable \in BOOLEAN
    /\ stdout_ascii \in BOOLEAN
    /\ files \in InitialFiles
    /\ attachment = NewAttachment
    /\ IdleFiletime
    /\ IdleSave

\* where the traversal is after the outer handler has printed
\* "Failed to process .msg file {self.file_path}: {e}"
AfterOuterHandler == IF StdoutAccepts(FILE_PATH, stdout_ascii) THEN "returned" ELSE "raised"

\* where the traversal is after an exception has reached the handler of the
\* entry loop, which prints "Error processing entry {entry.name}: {e}"
AfterEntryHandler(e) == IF StdoutAccepts(e.name, stdout_ascii) THEN "loop" ELSE AfterOuterHandler

\* what is recorded when an exception has reached the handler of the entry loop
FailedAfterEntryHandler(e) == IF StdoutAccepts(e.name, stdout_ascii) THEN failed ELSE "print"

\* the stream cannot be read and the print that reports it raises, in the
\* try block ("Stream is None ...") and then in its handler
ReportRaises(c) == ~c.isdir /\ c.open # "ok" /\ ~StdoutAccepts(c.name, stdout_ascii)

\* _extract_recipients or _extract_attachment is left: its locals are gone
LeaveGroup ==
    /\ stream_entry' = NoEntry
    /\ scanned' = 0
    /\ attachment' = NewAttachment

\* CompoundFileReader(self.file_path) succeeds
OpenContainer ==
    /\ pc = "start"
    /\ pc' = "loop"
    /\ UNCHANGED <<email_data, attachments, files, envVars, entry, yielded,
                   stream_entry, scanned, attachment, has_payload, failed,
                   error_logged, filetimeVars, saveVars>>

\* mutant: no outer try, the exception leaves process()
OpenContainerFails_propagates ==
    /\ pc = "start"
    /\ pc' = "raised"
    /\ failed' = "open"
    /\ UNCHANGED <<email_data, attachments, files, envVars, entry, yielded,
                   stream_entry, scanned, attachment, has_payload,
                   error_logged, filetimeVars, saveVars>>

\* CompoundFileReader(self.file_path) raises: the outer except prints, and
\* process() returns
OpenContainerFails ==
    /\ pc = "start"
    /\ pc' = AfterOuterHandler
    /\ failed' = "open"
    /\ UNCHANGED <<email_data, attachments, files, envVars, entry, yielded,
                   stream_entry, scanned, attachment, has_payload,
                   error_logged, filetimeVars, saveVars>>

\* the handler of the entry loop prints its line for entry e (once an
\* exception has reached it): its print returns
EntryHandlerLogs(e) == StdoutAccepts(e.name, stdout_ascii)

\* an except clause prints its line while _extract_metadata turns the Record
\* ed into after: the one of _extract_metadata when the stream cannot be
\* read and its name can be printed (otherwise no handler's print returns:
\* the handler of the entry loop prints the same name), the one of
\* _parse_filetime, which then returns "Unknown", when the sent timestamp is
\* out of range
MetadataLogs(ed, e, after) ==
    /\ ~e.isdir
    /\ \/ e.open = "raise" /\ StdoutAccepts(e.name, stdout_ascii)
       \/ ~Truthy(ed["Sent On"]) /\ after["Sent On"] = Unknown

\* an except clause prints its line while child c of the attachment group
\* group is scanned: the one of _extract_attachment when the stream cannot be
\* read and its name can be printed, the one of the entry loop when the
\* report of the stream raises and the name of the group can be printed
AttachmentLogs(group, c) ==
    /\ ~c.isdir
    /\ IF StdoutAccepts(c.name, stdout_ascii) THEN c.open = "raise"
       ELSE c.open # "ok" /\ EntryHandlerLogs(group)

\* doc.root yields an entry: _extract_metadata runs; _extract_recipients and
\* _extract_attachment return at once unless the entry is a group of theirs
YieldEntry ==
    /\ pc = "loop"
    /\ yielded < MaxEntries
    /\ \E e \in RootEntries :
          /\ entry' = e
          /\ LET after == _extract_metadata(email_data, e)
             IN /\ email_data' = after
                /\ error_logged' = (error_logged \/ MetadataLogs(email_data, e, after))
          /\ pc' = IF ReportRaises(e) THEN AfterEntryHandler(e)
                   ELSE IF IsRecipientGroup(e) THEN "recipients"
                   ELSE IF IsAttachmentGroup(e) THEN "attachment"
                   ELSE "loop"
          /\ failed' = IF ReportRaises(e) THEN FailedAfterEntryHandler(e) ELSE failed
    /\ has_payload' = FALSE
    /\ yielded' = yielded + 1
    /\ UNCHANGED <<attachments, files, envVars, stream_entry, scanned, attachment,
                   filetimeVars, saveVars>>

\* one iteration of "for recip_stream in entry"; what is printed for a
\* stream that cannot be read is the name __substg1.0_3003001F
ScanRecipientStream ==
    /\ pc = "recipients"
    /\ scanned < MaxChildren
    /\ \E c \in RecipChildren(entry) :
          /\ stream_entry' = c
          /\ email_data' = [email_data EXCEPT !["To"] = ScanRecipientChild(@, c)]
          /\ error_logged' = (error_logged \/ (c.name = NAME_RECIP_ADDR /\ c.open = "raise"))
    /\ scanned' = scanned + 1
    /\ UNCHANGED <<pc, attachments, files, envVars, entry, yielded, attachment,
                   has_payload, failed, filetimeVars, saveVars>>

\* the recipient group is exhausted; _extract_attachment returns at once
EndRecipients ==
    /\ pc = "recipients"
    /\ pc' = "loop"
    /\ LeaveGroup
    /\ UNCHANGED <<email_data, attachments, files, envVars, entry, yielded,
                   has_payload, failed, error_logged, filetimeVars, saveVars>>

\* one iteration of "for stream_entry in entry", which yields child c
ScanAttachmentStreamOf(c) ==
    /\ pc = "attachment"
    /\ scanned < MaxChildren
    /\ has_payload' = (has_payload \/
          (~c.isdir /\ c.name = NAME_ATT_DATA /\ c.open = "ok" /\ c.data # <<>>))
    /\ error_logged' = (error_logged \/ AttachmentLogs(entry, c))
    /\ IF ReportRaises(c)
       THEN /\ pc' = AfterEntryHandler(entry)
            /\ failed' = FailedAfterEntryHandler(entry)
            /\ LeaveGroup
       ELSE /\ stream_entry' = c
            /\ attachment' = ScanAttachmentChild(attachment, c)
            /\ scanned' = scanned + 1
            /\ UNCHANGED <<pc, failed>>
    /\ UNCHANGED <<email_data, attachments, files, envVars, entry, yielded,
                   filetimeVars, saveVars>>

ScanAttachmentStream == \E c \in AttachChildren : ScanAttachmentStreamOf(c)

\* the attachment group is exhausted: the attachment is saved if it has
\* data.  When _save_attachment raises, nothing is appended and the handler
\* prints "Error saving attachment for {entry.name}: {e}"; when that
\* print raises (the name of the group, or the path in the text of the
\* OSError, cannot be printed) the handler of the entry loop prints the name
\* of the group
FinishAttachment ==
    /\ pc = "attachment"
    /\ IF HasData(attachment)
       THEN LET save == _save_attachment(attachment, entry.name, files, writable,
                                         stdout_ascii)
            IN /\ files' = save.files
               /\ IF save.raises
                  THEN /\ UNCHANGED attachments
                       /\ error_logged' = (error_logged \/ EntryHandlerLogs(entry))
                       /\ pc' = AfterEntryHandler(entry)
                       /\ failed' = FailedAfterEntryHandler(entry)
                  ELSE /\ attachments' = Append(attachments, save.filename.val)
                       /\ pc' = "loop"
                       /\ UNCHANGED <<error_logged, failed>>
       ELSE /\ pc' = "loop"
            /\ UNCHANGED <<attachments, files, error_logged, failed>>
    /\ LeaveGroup
    /\ UNCHANGED <<email_data, envVars, entry, yielded, has_payload, filetimeVars,
                   saveVars>>

\* iterating the recipient or attachment group raises: the exception leaves
\* _extract_recipients or _extract_attachment, nothing is saved, and the
\* handler of the entry loop prints
GroupIterationFails ==
    /\ pc \in {"recipients", "attachment"}
    /\ pc' = AfterEntryHandler(entry)
    /\ failed' = FailedAfterEntryHandler(entry)
    /\ error_logged' = (error_logged \/ EntryHandlerLogs(entry))
    /\ LeaveGroup
    /\ UNCHANGED <<email_data, attachments, files, envVars, entry, yielded,
                   has_payload, filetimeVars, saveVars>>

\* iterating doc.root raises: the outer except prints, and process() returns
IterationFails ==
    /\ pc = "loop"
    /\ pc' = AfterOuterHandler
    /\ failed' = "iterate"
    /\ UNCHANGED <<email_data, attachments, files, envVars, entry, yielded,
                   stream_entry, scanned, attachment, has_payload,
                   error_logged, filetimeVars, saveVars>>

\* doc.root is exhausted: _process_msg returns, and process() returns
\* self.email_data, self.attachments
Return ==
    /\ pc = "loop"
    /\ pc' = "returned"
    /\ UNCHANGED <<email_data, attachments, files, envVars, entry, yielded,
                   stream_entry, scanned, attachment, has_payload, failed,
                   error_logged, filetimeVars, saveVars>>

\* main() after process() has returned: PDFGenerator(email_data,
\* attachments, pdf_output).generate() draws the document and writes it to
\* email_content.pdf in output_dir, in place of a file of that name; when
\* there is no such file and none can be created the exception of open()
\* leaves main()
GeneratePdf ==
    /\ pc = "returned"
    /\ files' = _save_pdf(files, generate(email_data, attachments), writable)
    /\ pc' = IF OpenRaises(PDF_NAME, writable, files) THEN "generate_raised" ELSE "generated"
    /\ UNCHANGED <<email_data, attachments, envVars, entry, yielded, stream_entry,
                   scanned, attachment, has_payload, failed, error_logged,
                   filetimeVars, saveVars>>

Next ==
    \/ OpenContainer
    \/ OpenContainerFails
    \/ YieldEntry
    \/ ScanRecipientStream
    \/ EndRecipients
    \/ ScanAttachmentStream
    \/ FinishAttachment
    \/ GroupIterationFails
    \/ IterationFails
    \/ Return
    \/ GeneratePdf

Spec == Init /\ [][Next]_vars

(***************************************************************************)
(* _parse_filetime as a call of its own                                    *)
(***************************************************************************)
InitFiletime ==
    /\ pc = "call"
    /\ InitObject
    /\ files = {}
    /\ writable = TRUE
    /\ stdout_ascii = FALSE
    /\ attachment = NewAttachment
    /\ data \in SeqsUpTo(ByteValues, MaxBufLen)
    /\ parsed = NoneVal
    /\ IdleSave

ParseFiletime ==
    /\ pc = "call"
    /\ parsed' = _parse_filetime(data)
    /\ pc' = "returned"
    /\ UNCHANGED <<email_data, attachments, files, envVars, entry, yielded,
                   stream_entry, scanned, attachment, has_payload, failed,
                   error_logged, data, saveVars>>

NextFiletime == ParseFiletime

SpecFiletime == InitFiletime /\ [][NextFiletime]_vars

(***************************************************************************)
(* _save_attachment as a call of its own, in an empty directory in which   *)
(* files can be created                                                    *)
(***************************************************************************)
InitSave ==
    /\ pc = "call"
    /\ InitObject
    /\ files = {}
    /\ writable = TRUE
    /\ stdout_ascii \in BOOLEAN
    /\ IdleFiletime
    /\ attachment \in
          [data : {Some(Payload)},
           filename : {NoneVal} \cup {Some(s) : s \in SeqsUpTo(NameChars, MaxNameLen)},
           mime_type : MimeTypes]
    /\ entry_name \in GroupNames
    /\ saved = NoneVal

SaveAttachment ==
    /\ pc = "call"
    /\ LET save == _save_attachment(attachment, entry_name, files, writable, stdout_ascii)
       IN /\ saved' = save.filename
          /\ files' = save.files
          /\ pc' = IF save.raises THEN "raised" ELSE "returned"
    /\ UNCHANGED <<email_data, attachments, envVars, entry, yielded, stream_entry,
                   scanned, attachment, has_payload, failed, error_logged,
                   filetimeVars, entry_name>>

NextSave == SaveAttachment

SpecSave == InitSave /\ [][NextSave]_vars

(***************************************************************************)
(* Properties.                                                             *)
(***************************************************************************)
IsSentStream(e) == ~e.isdir /\ e.name \in {NAME_SENT_A, NAME_SENT_B}
Yields == pc = "loop" /\ yielded' = yielded + 1

\* C1: once a sent-timestamp stream has set "Sent On" (to a datetime or to
\* "Unknown"), no step changes it, and the first sent-timestamp stream that
\* is read sets it to the value decoded from that stream.
C1_SentOnFirstWins ==
    [][/\ email_data["Sent On"] # NoneVal => email_data'["Sent On"] = email_data["Sent On"]
       /\ (Yields /\ IsSentStream(entry') /\ entry'.open = "ok"
              /\ email_data["Sent On"] = NoneVal)
          => email_data'["Sent On"] = _parse_filetime(entry'.data)]_vars

\* a second sent-timestamp stream with another value has been read and
\* "Sent On" still holds the first value
C1_Witness ==
    /\ yielded = 2
    /\ IsSentStream(entry) /\ entry.open = "ok"
    /\ email_data["Sent On"] \notin {NoneVal, _parse_filetime(entry.data)}

ScansRecipient == pc = "recipients" /\ scanned' = scanned + 1
ScansAttachment == pc = "attachment" /\ scanned' = scanned + 1

\* C2: a root stream, a recipient-group child or an attachment-group child
\* whose read raises is caught and skipped: it contributes nothing (the
\* Record, the attachment dict, the attachment list and the files are as
\* before) and the traversal goes on from the same place, with the next
\* child of the group or the next entry of the root.
C2_FailureIsSkipped ==
    [][/\ (Yields /\ ~entry'.isdir /\ entry'.open = "raise")
          => /\ email_data' = email_data
             /\ attachments' = attachments /\ files' = files
             /\ pc' = "loop"
       /\ (ScansRecipient /\ stream_entry'.open = "raise")
          => /\ email_data' = email_data
             /\ attachments' = attachments /\ files' = files
             /\ pc' = "recipients"
       /\ (\E c \in AttachChildren :
              ~c.isdir /\ c.open = "raise" /\ ScanAttachmentStreamOf(c))
          => /\ attachment' = attachment
             /\ email_data' = email_data
             /\ attachments' = attachments /\ files' = files
             /\ pc' = "attachment"]_vars

\* what is left to do: the entries the root has not yielded, each with its
\* children, the children the current group has not yielded, and the PDF
Variant ==
    CASE pc = "start" -> (MaxEntries + 1) * (MaxChildren + 2) + 3
      [] pc = "loop" -> (MaxEntries - yielded) * (MaxChildren + 2) + 2
      [] pc \in {"recipients", "attachment"} ->
            (MaxEntries - yielded) * (MaxChildren + 2) + 3 + (MaxChildren - scanned)
      [] pc = "returned" -> 1
      [] OTHER -> 0

\* C3: process() on a .msg path never raises (main() goes on to generate the
\* PDF), every step brings it closer to its return, and when opening the
\* container failed the Record it returns is the empty one, with no
\* attachment and no file written (the files are those output_dir held at
\* the start).
C3_AlwaysReturns ==
    /\ [](/\ pc \in {"start", "loop", "recipients", "attachment", "returned",
                   "generated", "generate_raised"}
          /\ (pc = "returned" /\ failed = "open")
             => /\ email_data = EmptyRecord
                /\ attachments = <<>>
                /\ files \in InitialFiles)
    /\ [][Variant' < Variant /\ Variant' >= 0]_vars

\* process() has returned after the container failed to open
C3_Witness == pc = "returned" /\ failed = "open" /\ email_data = EmptyRecord

LeavesAttachment == pc = "attachment" /\ pc' # "attachment"

\* C4: when the traversal leaves an attachment group in which no payload
\* stream with bytes was read (no payload stream, an empty one, or one that
\* failed), no file is written and the attachment list is unchanged; the
\* list grows only at the end of a group with payload bytes, by exactly one
\* name, under which a file with bytes then exists, and (when files cannot
\* be created in the output directory) existed before; no other step of
\* process() changes the list or the files.
C4_OnlyPayloadIsSaved ==
    [][IF LeavesAttachment
       THEN /\ ~has_payload => (attachments' = attachments /\ files' = files)
            /\ attachments' # attachments
               => /\ has_payload
                  /\ writable \/ \E f \in files : f.name = attachments'[Len(attachments')]
                  /\ Len(attachments') = Len(attachments) + 1
                  /\ SubSeq(attachments', 1, Len(attachments)) = attachments
                  /\ \E f \in files' :
                        f.name = attachments'[Len(attachments')] /\ f.data # <<>>
       ELSE /\ attachments' = attachments
            /\ pc # "returned" => files' = files]_vars

\* the first entry was an attachment group that was scanned to its end
\* without a failure and without payload bytes (no payload stream, or an
\* empty one): it has been left, in a directory in which files can be
\* created, and nothing was saved
C4_Witness ==
    /\ pc = "loop"
    /\ yielded = 1
    /\ IsAttachmentGroup(entry)
    /\ writable
    /\ ~error_logged
    /\ ~has_payload
    /\ attachments = <<>> /\ files = {}

\* C8: "To" changes only when a recipient-group child named
\* __substg1.0_3003001F is read, and then the decoded address is appended at
\* the end; a child of another name, a child that cannot be read, and every
\* other step leave "To" as it is.
C8_ToAppendOnly ==
    [][IF /\ ScansRecipient
          /\ stream_entry'.name = NAME_RECIP_ADDR
          /\ stream_entry'.open = "ok"
       THEN email_data'["To"] = Append(email_data["To"], DecodeText(stream_entry'.data))
       ELSE email_data'["To"] = email_data["To"]]_vars

\* two recipient groups with one address each: "To" lists the addresses in
\* the order of the groups
C8_Witness ==
    /\ yielded = 2
    /\ pc = "loop"
    /\ IsRecipientGroup(entry)
    /\ ~error_logged
    /\ email_data["To"] = <<<<65>>, <<66>>>>

FilenameNames == {NAME_ATT_FILENAME_A, NAME_ATT_FILENAME_B}
\* the declared filenames that the streams of that name hold
FilenamesOf(n) ==
    {Some(DecodeText(c.data)) : c \in {d \in AttachChildren : d.name = n /\ d.open = "ok"}}

\* C9: within one attachment group, when the declared filename was set from
\* one of the two filename streams, reading the other filename stream does
\* not change it.
C9_FirstFilenameWins ==
    [][\A n \in FilenameNames :
          (/\ ScansAttachment
           /\ attachment.filename \in FilenamesOf(n)
           /\ stream_entry'.name \in FilenameNames \ {n})
          => attachment'.filename = attachment.filename]_vars

\* C5: on a buffer of fewer than 8 bytes _parse_filetime returns "Unknown".
C5_UndersizedIsUnknown ==
    (pc = "returned" /\ Len(data) < 8) => parsed = Unknown

\* C10: on a buffer of 8 or more bytes _parse_filetime returns what it
\* returns on the first 8 bytes of the buffer.
C10_OnlyFirstEightBytes ==
    (pc = "returned" /\ Len(data) >= 8) => parsed = _parse_filetime(SubSeq(data, 1, 8))

\* the characters < > : " / \ | ? *
ForbiddenChars == {60, 62, 58, 34, 47, 92, 124, 63, 42}
WithPeriods(s) == [i \in 1..Len(s) |-> IF s[i] \in ForbiddenChars THEN 46 ELSE s[i]]
HasPeriod(s) == \E i \in 1..Len(s) : s[i] = 46
\* the last 8 characters of a name of at least 8 characters
Suffix8(s) == SubSeq(s, Len(s) - 7, Len(s))
\* the extension of a MIME type: .pdf .txt .jpg .png .doc, else .bin
ExtensionOf(m) ==
    CASE m = Some(MIME_PDF) -> <<46, 112, 100, 102>>
      [] m = Some(MIME_TXT) -> <<46, 116, 120, 116>>
      [] m = Some(MIME_JPEG) -> <<46, 106, 112, 103>>
      [] m = Some(MIME_PNG) -> <<46, 112, 110, 103>>
      [] m = Some(MIME_DOC) -> <<46, 100, 111, 99>>
      [] OTHER -> <<46, 98, 105, 110>>

UndeclaredPng ==
    /\ pc # "call"
    /\ attachment.filename = NoneVal
    /\ attachment.mime_type = Some(MIME_PNG)

\* C6, as stated: with no declared filename and MIME type image/png
\* _save_attachment returns, and the name is 'attachment_' + the last 8
\* characters of the group name + '.png'.
C6_AlwaysPng ==
    UndeclaredPng =>
        /\ pc = "returned"
        /\ saved = Some(ATTACHMENT_ \o Suffix8(entry_name) \o <<46, 112, 110, 103>>)

\* C6, amended: for a group name of ASCII characters other than NUL, in a
\* directory in which files can be created, _save_attachment returns; that
\* is the name when the last 8 characters hold no period and none of
\* < > : " / \ | ? *; otherwise the name is 'attachment_' + the last 8
\* characters with each of < > : " / \ | ? * replaced by a period, and no
\* extension.
C6_PngUnlessPeriod ==
    UndeclaredPng =>
        /\ pc = "returned"
        /\ IF HasPeriod(WithPeriods(Suffix8(entry_name)))
           THEN saved = Some(ATTACHMENT_ \o WithPeriods(Suffix8(entry_name)))
           ELSE saved = Some(ATTACHMENT_ \o Suffix8(entry_name) \o <<46, 112, 110, 103>>)

\* both cases: __attach_version1.0_#1 gives attachment_on1.0_#1
C6_Witness ==
    /\ UndeclaredPng
    /\ HasPeriod(Suffix8(entry_name))
    /\ saved = Some(ATTACHMENT_ \o <<111, 110, 49, 46, 48, 95, 35, 49>>)

SanitizedWithExtension(name) ==
    IF HasPeriod(WithPeriods(name)) THEN WithPeriods(name)
    ELSE WithPeriods(name) \o ExtensionOf(attachment.mime_type)

\* C7, as stated: for every declared filename _save_attachment returns, and
\* the name returned is the declared filename with each of < > : " / \ | ? *
\* replaced by a period, followed by the extension of the MIME type if it
\* holds no period.
C7_EveryDeclaredName ==
    (pc # "call" /\ attachment.filename # NoneVal)
        => /\ pc = "returned"
           /\ saved = Some(SanitizedWithExtension(attachment.filename.val))

\* the sanitized name is the directory or its parent, or holds a NUL
NotAFileName(name) ==
    \/ WithPeriods(name) \in {<<46>>, <<46, 46>>}
    \/ \E i \in 1..Len(name) : name[i] = 0

\* C7, amended: for every declared filename that is not empty, whenever
\* _save_attachment returns, the name returned is that name, and it holds
\* none of < > : " / \ | ? *; when the sanitized name is '.' or '..' or holds
\* a NUL, _save_attachment raises and writes no file.
C7_NonEmptyDeclaredName ==
    (pc # "call" /\ attachment.filename # NoneVal /\ attachment.filename.val # <<>>)
        => /\ pc = "returned"
              => /\ saved = Some(SanitizedWithExtension(attachment.filename.val))
                 /\ \A i \in 1..Len(saved.val) : saved.val[i] \notin ForbiddenChars
           /\ NotAFileName(attachment.filename.val)
              => (pc = "raised" /\ saved = NoneVal /\ files = {})

\* the declared filename "a:" with MIME type application/pdf was saved as "a."
C7_Witness ==
    /\ pc = "returned"
    /\ attachment.filename = Some(<<97, 58>>)
    /\ attachment.mime_type = Some(MIME_PDF)
    /\ saved = Some(<<97, 46>>)
====
